---- MODULE Spec2Model ----
(***************************************************************************)
(* A model of src/space.rs: the region registry and address resolver       *)
(* `Space` and the process-wide registry of named spaces `SpaceTable`.     *)
(*                                                                         *)
(* u64 is scaled down to the words 0 .. MaxAddr with wrapping arithmetic   *)
(* modulo Modulus = MaxAddr + 1 (Modulus stands for 2^64).                 *)
(* Option<T> is a set with at most one element: None is {}, Some(x) is {x}.*)
(***************************************************************************)
EXTENDS Integers, Sequences, FiniteSets, TLC

(* ------------------------------- bounds -------------------------------- *)

\* the largest address: stands for u64::MAX
MaxAddr == 3

\* at most this many clean() calls in one run
MaxClean == 2

\* at most this many get_space() calls in one run of the table
MaxCalls == 4

\* add_region and delete_region calls made under the guard in one run
MaxJobs == 3

Modulus == MaxAddr + 1

Addr == 0 .. MaxAddr

\* region names used by the callers of one Space
Names == {"a", "b", "c"}

\* foreign handles (*const Box<Arc<Region>>) the callers pass to clean()
Handles == {"p1", "p2"}

\* the names the callers pass to clean(): a region may or may not carry them
CleanNames == {"a", "b"}

\* the threads that call get_space, and the space names they ask for
Threads == {"t1", "t2", "t3"}

SpaceNames == {"space_query", "main"}

(* ------------------------------- state --------------------------------- *)

VARIABLES
    regions,   \* Space.regions: BTreeMap<u64, (String, Arc<Region>)>
    ptrs,      \* Space.ptrs: HashMap<String, Vec<RegionCPtr>>
    dropped,   \* the handles read and dropped by delete_region, in order
    aborted,   \* the process was killed by the allocator on a double free
    last,      \* the last call on the Space: operation, name, what it returned
    spaces,    \* SpaceTable.spaces: HashMap<String, Arc<Mutex<Space>>>
    owner,     \* the holder of the Mutex around SpaceTable.spaces
    pc,        \* each thread's position in get_space
    arg,       \* each thread's `name` argument
    vacant,    \* each thread's Entry: is it a VacantEntry?
    ret,       \* each thread's last returned handle, with the name asked
    made,      \* how many times Space::new() ran for each name
    printed,   \* how many times "create space_query" was printed
    calls,     \* get_space calls started so far
    guards,    \* the MutexGuards of Spaces that are held: (space, thread)
    job        \* each thread's add_region or delete_region call in progress

spaceVars == <<regions, ptrs, dropped, aborted, last>>

tableVars == <<spaces, owner, pc, arg, vacant, ret, made, printed, calls,
               guards, job>>

vars == <<regions, ptrs, dropped, aborted, last,
          spaces, owner, pc, arg, vacant, ret, made, printed, calls,
          guards, job>>

(* ----------------------------- u64 arithmetic -------------------------- *)

\* a + b on u64 (wrapping)
Plus(a, b) == (a + b) % Modulus

\* a - 1 on u64 (wrapping)
Pred(a) == (a + Modulus - 1) % Modulus

Min(S) == CHOOSE x \in S : \A y \in S : x <= y

Max(S) == CHOOSE x \in S : \A y \in S : x >= y

(* -------------------------------- Region ------------------------------- *)

\* Region.info: {base: u64, size: u64}
Region == [base : Addr, size : Addr]

\* an entry of Space.regions: (String, Arc<Region>)
Entry(n, r) == [name |-> n, region |-> r]

(* -------------------------------- Space -------------------------------- *)

\* BTreeMap::new, HashMap::new
EmptyMap == [x \in {} |-> x]

\* regions.values().find(..): the keys are visited in ascending order
\* ks are the keys of the entries that pass the test
FirstKey(ks) == IF ks = {} THEN {} ELSE {Min(ks)}

\* a variant of Overlaps that tests the candidate's two ends only
OverlapsCandidateEnds(region, v) ==
    \/ region.base >= v.base /\ region.base < Plus(v.base, v.size)
    \/ /\ Pred(Plus(region.base, region.size)) >= v.base
       /\ Pred(Plus(region.base, region.size)) < Plus(v.base, v.size)

\* a variant of Overlaps that tests the candidate's base only
OverlapsCandidateBase(region, v) ==
    region.base >= v.base /\ region.base < Plus(v.base, v.size)

\* a variant of Overlaps whose upper tests are inclusive (<= for <)
OverlapsInclusive(region, v) ==
    \/ region.base >= v.base /\ region.base <= Plus(v.base, v.size)
    \/ /\ Pred(Plus(region.base, region.size)) >= v.base
       /\ Pred(Plus(region.base, region.size)) <= Plus(v.base, v.size)
    \/ v.base >= region.base /\ v.base <= Plus(region.base, region.size)
    \/ /\ Pred(Plus(v.base, v.size)) >= region.base
       /\ Pred(Plus(v.base, v.size)) <= Plus(region.base, region.size)

\* the closure of lines 40-45: the four relative positions
Overlaps(region, v) ==
    \/ region.base >= v.base /\ region.base < Plus(v.base, v.size)
    \/ /\ Pred(Plus(region.base, region.size)) >= v.base
       /\ Pred(Plus(region.base, region.size)) < Plus(v.base, v.size)
    \/ v.base >= region.base /\ v.base < Plus(region.base, region.size)
    \/ /\ Pred(Plus(v.base, v.size)) >= region.base
       /\ Pred(Plus(v.base, v.size)) < Plus(region.base, region.size)

\* the name test of line 37
SameName(e, name) == e.name = name

\* a variant of Check without the name test
CheckOverlapOnly(rs, name, region) ==
    LET hit == FirstKey({k \in DOMAIN rs : Overlaps(region, rs[k].region)})
    IN  IF hit # {}
        THEN [kind |-> "Overlap", name |-> rs[Min(hit)].name, region |-> {}]
        ELSE [kind |-> "Ok", name |-> name, region |-> {region}]

\* a variant of Check that names the first registered region in Overlap
CheckNamesFirst(rs, name, region) ==
    LET named == FirstKey({k \in DOMAIN rs : SameName(rs[k], name)})
        hit   == FirstKey({k \in DOMAIN rs : Overlaps(region, rs[k].region)})
    IN  IF named # {}
        THEN [kind |-> "Renamed", name |-> name, region |-> {}]
        ELSE IF hit # {}
        THEN [kind |-> "Overlap", name |-> rs[Min(DOMAIN rs)].name, region |-> {}]
        ELSE [kind |-> "Ok", name |-> name, region |-> {region}]

\* a variant of Check that tests the ranges before the name
CheckOverlapFirst(rs, name, region) ==
    LET named == FirstKey({k \in DOMAIN rs : SameName(rs[k], name)})
        hit   == FirstKey({k \in DOMAIN rs : Overlaps(region, rs[k].region)})
    IN  IF hit # {}
        THEN [kind |-> "Overlap", name |-> rs[Min(hit)].name, region |-> {}]
        ELSE IF named # {}
        THEN [kind |-> "Renamed", name |-> name, region |-> {}]
        ELSE [kind |-> "Ok", name |-> name, region |-> {region}]

\* the closure `check` of add_region
Check(rs, name, region) ==
    LET named == FirstKey({k \in DOMAIN rs : SameName(rs[k], name)})
        hit   == FirstKey({k \in DOMAIN rs : Overlaps(region, rs[k].region)})
    IN  IF named # {}
        THEN [kind |-> "Renamed", name |-> name, region |-> {}]
        ELSE IF hit # {}
        THEN [kind |-> "Overlap", name |-> rs[Min(hit)].name, region |-> {}]
        ELSE [kind |-> "Ok", name |-> name, region |-> {region}]

\* BTreeMap::insert: an entry under the same key is replaced
Insert(rs, k, e) == [x \in DOMAIN rs \cup {k} |-> IF x = k THEN e ELSE rs[x]]

\* BTreeMap::remove
Remove(rs, k) == [x \in DOMAIN rs \ {k} |-> rs[x]]

\* the registered regions after add_region(name, region)
AddRegions(rs, name, region) ==
    IF Check(rs, name, region).kind = "Ok"
    THEN Insert(rs, region.base, Entry(name, region))
    ELSE rs

\* a variant of DeleteRegions that removes the first entry of the map once
\* the name is found
DeleteRegionsFirstEntry(rs, name) ==
    LET res == FirstKey({k \in DOMAIN rs : SameName(rs[k], name)})
    IN  IF res # {} THEN Remove(rs, Min(DOMAIN rs)) ELSE rs

\* a variant of DeleteRegions that removes key 0 when the name is not found
DeleteRegionsDefaultKey(rs, name) ==
    LET res == FirstKey({k \in DOMAIN rs : SameName(rs[k], name)})
    IN  IF res # {} THEN Remove(rs, Min(res)) ELSE Remove(rs, 0)

\* the registered regions after delete_region(name)
DeleteRegions(rs, name) ==
    LET res == FirstKey({k \in DOMAIN rs : SameName(rs[k], name)})
    IN  IF res # {} THEN Remove(rs, Min(res)) ELSE rs

\* Space::get_region
GetRegion(rs, name) ==
    LET res == FirstKey({k \in DOMAIN rs : SameName(rs[k], name)})
    IN  IF res # {} THEN {rs[Min(res)].region} ELSE {}

\* a variant of get_region_by_addr that takes the first entry of the range
GetRegionByAddrFirst(rs, addr) ==
    LET below == {k \in DOMAIN rs : k <= addr}
    IN  IF below # {}
        THEN LET v == rs[Min(below)].region
             IN  IF addr < Plus(v.base, v.size)
                 THEN [ok |-> {v}, err |-> {}]
                 ELSE [ok |-> {}, err |-> {addr}]
        ELSE [ok |-> {}, err |-> {addr}]

\* Space::get_region_by_addr
GetRegionByAddr(rs, addr) ==
    LET below == {k \in DOMAIN rs : k <= addr}
    IN  IF below # {}
        THEN LET v == rs[Max(below)].region
             IN  IF addr < Plus(v.base, v.size)
                 THEN [ok |-> {v}, err |-> {}]
                 ELSE [ok |-> {}, err |-> {addr}]
        ELSE [ok |-> {}, err |-> {addr}]

\* the handles of ps that an earlier drop has already freed, by position
DoubleFrees(done, ps) ==
    {i \in 1 .. Len(ps) :
        \/ \E j \in 1 .. Len(done) : done[j] = ps[i]
        \/ \E j \in 1 .. (i - 1) : ps[j] = ps[i]}

\* the candidate regions of the callers: size > 0 and base + size < 2^64
\* (for these no sum of lines 41-44 and 75 wraps)
Candidates == {r \in Region : r.size > 0 /\ r.base + r.size < Modulus}

\* the clean() calls made so far
Cleans ==
    Len(dropped) + Cardinality({<<n, i>> \in (DOMAIN ptrs) \X (1 .. MaxClean) :
                                   i <= Len(ptrs[n])})

InitSpace ==
    /\ regions = EmptyMap
    /\ ptrs = EmptyMap
    /\ dropped = <<>>
    /\ aborted = FALSE
    /\ last = [op |-> "new", name |-> "", found |-> FALSE,
               ret |-> [kind |-> "Unit", name |-> "", region |-> {}]]

\* Space::add_region
AddRegion(name, region) ==
    /\ ~aborted
    /\ regions' = AddRegions(regions, name, region)
    /\ last' = [op |-> "add_region", name |-> name, found |-> FALSE,
                ret |-> Check(regions, name, region)]
    /\ UNCHANGED <<ptrs, dropped, aborted>>

\* Space::delete_region. Reading and dropping a Box that an earlier drop has
\* freed is a double free: the run goes on, or the allocator kills the
\* process at that drop.
DeleteRegion(name) ==
    /\ ~aborted
    /\ regions' = DeleteRegions(regions, name)
    /\ ptrs' = IF name \in DOMAIN ptrs THEN Remove(ptrs, name) ELSE ptrs
    /\ last' = [op |-> "delete_region", name |-> name,
                found |-> (GetRegion(regions, name) # {}),
                ret |-> [kind |-> "Unit", name |-> "", region |-> {}]]
    /\ LET ps == IF name \in DOMAIN ptrs THEN ptrs[name] ELSE <<>>
           df == DoubleFrees(dropped, ps)
       IN  \/ /\ dropped' = dropped \o ps
              /\ aborted' = FALSE
           \/ /\ df # {}
              /\ dropped' = dropped \o SubSeq(ps, 1, Min(df))
              /\ aborted' = TRUE

\* a variant of Push that skips a handle that is already pending for name
PushOnce(ps, name, ptr) ==
    IF name \in DOMAIN ps
    THEN IF \E i \in 1 .. Len(ps[name]) : ps[name][i] = ptr
         THEN ps
         ELSE [ps EXCEPT ![name] = Append(@, ptr)]
    ELSE Insert(ps, name, <<ptr>>)

\* lines 136-137: ptrs.entry(name).or_insert(vec![]).push(RegionCPtr(ptr))
Push(ps, name, ptr) ==
    IF name \in DOMAIN ps
    THEN [ps EXCEPT ![name] = Append(@, ptr)]
    ELSE Insert(ps, name, <<ptr>>)

\* Space::clean
Clean(name, ptr) ==
    /\ ~aborted
    /\ Cleans < MaxClean
    /\ ptrs' = Push(ptrs, name, ptr)
    /\ last' = [op |-> "clean", name |-> name, found |-> FALSE,
                ret |-> [kind |-> "Unit", name |-> "", region |-> {}]]
    /\ UNCHANGED <<regions, dropped, aborted>>

\* the typed accesses of lines 85-133
AccessOps ==
    {"write_u8", "read_u8", "write_u16", "read_u16", "write_u32", "read_u32",
     "write_u64", "read_u64", "write_bytes", "read_bytes"}

\* a variant of Access that looks the address up as a key of the map
AccessByKey(rs, addr) ==
    IF addr \in DOMAIN rs
    THEN [kind |-> "Ok", region |-> {rs[addr].region}, err |-> {}]
    ELSE [kind |-> "Err", region |-> {}, err |-> {addr}]

\* let region = self.get_region_by_addr(addr)?; Ok(XAccess::op(region, ..)):
\* the Err of get_region_by_addr is returned as it is, otherwise the access
\* is made on the region found
Access(rs, addr) ==
    LET res == GetRegionByAddr(rs, addr)
    IN  IF res.ok = {}
        THEN [kind |-> "Err", region |-> {}, err |-> res.err]
        ELSE [kind |-> "Ok", region |-> res.ok, err |-> {}]

\* one typed access (&self): op at addr
TypedAccess(op, addr) ==
    /\ ~aborted
    /\ last' = [op |-> op, name |-> "", found |-> FALSE, addr |-> addr,
                ret |-> Access(regions, addr)]
    /\ UNCHANGED <<regions, ptrs, dropped, aborted>>

(* ------------------------------ SpaceTable ----------------------------- *)

\* SPACE_TABLE: SpaceTable { spaces: Mutex::new(HashMap::new()) }
InitTable ==
    /\ spaces = EmptyMap
    /\ owner = {}
    /\ pc = [t \in Threads |-> "idle"]
    /\ arg = [t \in Threads |-> ""]
    /\ vacant = [t \in Threads |-> FALSE]
    /\ ret = [t \in Threads |-> {}]
    /\ made = <<>>
    /\ printed = 0
    /\ calls = 0
    /\ guards = {}
    /\ job = [t \in Threads |-> {}]

\* a thread calls get_space(name)
Call(t, name) ==
    /\ pc[t] = "idle"
    /\ calls < MaxCalls
    /\ calls' = calls + 1
    /\ arg' = [arg EXCEPT ![t] = name]
    /\ pc' = [pc EXCEPT ![t] = "lock"]
    /\ UNCHANGED <<spaces, owner, vacant, ret, made, printed>>
    /\ UNCHANGED <<guards, job>>

\* a variant of CanLock that also waits for the guards of the Spaces
CanLockNoGuards(t) == owner = {} /\ guards = {}

\* a variant of CanLock that never blocks
CanLockAlways(t) == TRUE

\* Mutex::lock blocks while another thread holds the guard
CanLock(t) == owner = {}

\* self.spaces.lock().unwrap()
Lock(t) ==
    /\ pc[t] = "lock"
    /\ CanLock(t)
    /\ owner' = {t}
    /\ pc' = [pc EXCEPT ![t] = "entry"]
    /\ UNCHANGED <<spaces, arg, vacant, ret, made, printed, calls>>
    /\ UNCHANGED <<guards, job>>

\* map.entry(String::from(name)): the lookup
MapEntry(t) ==
    /\ pc[t] = "entry"
    /\ vacant' = [vacant EXCEPT ![t] = arg[t] \notin DOMAIN spaces]
    /\ pc' = [pc EXCEPT ![t] = "or_insert"]
    /\ UNCHANGED <<spaces, owner, arg, ret, made, printed, calls>>
    /\ UNCHANGED <<guards, job>>

\* the Arc<Mutex<Space>> made by the next Arc::new(Mutex::new(Space::new()))
NewSpace == Len(made) + 1

\* a variant of Notifies that prints for every name
NotifiesAny(name) == TRUE

\* line 164: if name == "space_query" { println!("create space_query") }
Notifies(name) == name = "space_query"

\* .or_insert_with(|| { .. }).clone(): the closure runs for a vacant entry only
OrInsertWith(t) ==
    /\ pc[t] = "or_insert"
    /\ IF vacant[t]
       THEN /\ printed' = IF Notifies(arg[t]) THEN printed + 1 ELSE printed
            /\ made' = Append(made, arg[t])
            /\ spaces' = Insert(spaces, arg[t], NewSpace)
       ELSE UNCHANGED <<spaces, made, printed>>
    /\ ret' = [ret EXCEPT ![t] = {[name |-> arg[t], space |-> spaces'[arg[t]]]}]
    /\ pc' = [pc EXCEPT ![t] = "return"]
    /\ UNCHANGED <<owner, arg, vacant, calls>>
    /\ UNCHANGED <<guards, job>>

\* the MutexGuard `map` goes out of scope and get_space returns
Return(t) ==
    /\ pc[t] = "return"
    /\ owner' = owner \ {t}
    /\ pc' = [pc EXCEPT ![t] = "idle"]
    /\ UNCHANGED <<spaces, arg, vacant, ret, made, printed, calls>>
    /\ UNCHANGED <<guards, job>>

(* ------------------------- the guard of a Space ------------------------ *)

\* the threads holding the guard of Space s
Holders(s) == {g.thread : g \in {x \in guards : x.space = s}}

\* a caller locks the Mutex<Space> of the handle it got from get_space;
\* Mutex::lock blocks while the guard is held
SpaceLock(t) ==
    /\ pc[t] = "idle"
    /\ job[t] = {}
    /\ \E h \in ret[t] :
          /\ Holders(h.space) = {}
          /\ guards' = guards \cup {[space |-> h.space, thread |-> t]}
    /\ UNCHANGED <<spaces, owner, pc, arg, vacant, ret, made, printed, calls, job>>

\* the caller drops the MutexGuard of a Space
SpaceUnlock(t) ==
    /\ pc[t] = "idle"
    /\ job[t] = {}
    /\ \E g \in guards :
          /\ g.thread = t
          /\ guards' = guards \ {g}
    /\ UNCHANGED <<spaces, owner, pc, arg, vacant, ret, made, printed, calls, job>>

(* ------------- add_region and delete_region under the guard ----------- *)

\* the Space the threads share: the first one made
TheSpace == 1

\* the threads that hold a handle to it
GuardThreads == {"t1", "t2"}

\* the calls of the other threads that are in progress or waiting
InFlight(t) == {u \in Threads \ {t} : \E j \in job[u] : j.at # "returned"}

\* thread t calls space.lock().unwrap().add_region(name, region) or
\* .delete_region(name); what came back from its previous call is forgotten
Request(t, op, name, rg) ==
    /\ \A j \in job[t] : j.at = "returned"
    /\ calls < MaxJobs
    /\ calls' = calls + 1
    /\ job' = [u \in Threads |->
                 IF u = t
                 THEN {[op |-> op, name |-> name, region |-> rg, at |-> "lock",
                        res |-> "", with |-> InFlight(t)]}
                 ELSE {[j EXCEPT !.with = @ \ {t}] : j \in job[u]}]
    /\ UNCHANGED <<spaces, owner, pc, arg, vacant, ret, made, printed, guards>>

\* a variant of GuardFree: the call is made without taking the guard
GuardFreeAlways(sp) == TRUE

\* Mutex::lock on the Mutex<Space> blocks while another thread holds it
GuardFree(sp) == Holders(sp) = {}

\* the guard is taken
Acquire(t) ==
    /\ \E j \in job[t] :
          /\ j.at = "lock"
          /\ job' = [job EXCEPT ![t] = {[j EXCEPT !.at = "check"]}]
    /\ GuardFree(TheSpace)
    /\ guards' = guards \cup {[space |-> TheSpace, thread |-> t]}
    /\ UNCHANGED <<spaces, owner, pc, arg, vacant, ret, made, printed, calls>>

\* the guards left when the MutexGuard of thread t goes out of scope
Dropped(t) == {g \in guards : g.thread # t}

\* add_region, line 50: check()?; an Err returns, and the caller's guard is
\* dropped
CheckStep(t) ==
    /\ \E j \in job[t] :
          /\ j.at = "check" /\ j.op = "add_region"
          /\ \E r \in j.region :
                LET res == Check(regions, j.name, r)
                IN  /\ job' = [job EXCEPT ![t] =
                                 {[j EXCEPT !.res = res.kind,
                                            !.at = IF res.kind = "Ok"
                                                   THEN "insert" ELSE "returned"]}]
                    /\ guards' = IF res.kind = "Ok" THEN guards ELSE Dropped(t)
    /\ UNCHANGED <<spaces, owner, pc, arg, vacant, ret, made, printed, calls>>

\* add_region, lines 51-52: the insert, and Ok; the caller's guard is dropped
InsertStep(t) ==
    /\ \E j \in job[t] :
          /\ j.at = "insert"
          /\ \E r \in j.region :
                regions' = Insert(regions, r.base, Entry(j.name, r))
          /\ job' = [job EXCEPT ![t] = {[j EXCEPT !.at = "returned"]}]
    /\ guards' = Dropped(t)
    /\ UNCHANGED <<spaces, owner, pc, arg, vacant, ret, made, printed, calls>>

\* delete_region, lines 55-63; the caller's guard is dropped
DeleteStep(t) ==
    /\ \E j \in job[t] :
          /\ j.at = "check" /\ j.op = "delete_region"
          /\ regions' = DeleteRegions(regions, j.name)
          /\ job' = [job EXCEPT ![t] =
                        {[j EXCEPT !.res = "Unit", !.at = "returned"]}]
    /\ guards' = Dropped(t)
    /\ UNCHANGED <<spaces, owner, pc, arg, vacant, ret, made, printed, calls>>

(* ---------------------------- specifications --------------------------- *)

Init == InitSpace /\ InitTable

\* one Space, its operations called one after the other
Next ==
    \/ \E name \in Names, region \in Candidates :
          AddRegion(name, region) /\ UNCHANGED tableVars
    \/ \E name \in Names : DeleteRegion(name) /\ UNCHANGED tableVars
    \/ \E name \in CleanNames, ptr \in Handles :
          Clean(name, ptr) /\ UNCHANGED tableVars

Spec == Init /\ [][Next]_vars

\* the SpaceTable, get_space called from several threads
TableNext ==
    \/ \E t \in Threads, name \in SpaceNames : Call(t, name) /\ UNCHANGED spaceVars
    \/ \E t \in Threads : Lock(t) /\ UNCHANGED spaceVars
    \/ \E t \in Threads : MapEntry(t) /\ UNCHANGED spaceVars
    \/ \E t \in Threads : OrInsertWith(t) /\ UNCHANGED spaceVars
    \/ \E t \in Threads : Return(t) /\ UNCHANGED spaceVars

TableSpec == Init /\ [][TableNext]_vars

\* the SpaceTable, and threads that lock and unlock the Spaces they got from
\* it, before, after and around their get_space calls
FairNext ==
    \/ \E t \in Threads, name \in SpaceNames : Call(t, name) /\ UNCHANGED spaceVars
    \/ \E t \in Threads : Lock(t) /\ UNCHANGED spaceVars
    \/ \E t \in Threads : MapEntry(t) /\ UNCHANGED spaceVars
    \/ \E t \in Threads : OrInsertWith(t) /\ UNCHANGED spaceVars
    \/ \E t \in Threads : Return(t) /\ UNCHANGED spaceVars
    \/ \E t \in Threads : SpaceLock(t) /\ UNCHANGED spaceVars
    \/ \E t \in Threads : SpaceUnlock(t) /\ UNCHANGED spaceVars

\* fair scheduling: a thread inside get_space keeps running, and the table
\* lock is granted to a thread that can take it again and again; nothing
\* makes a thread call get_space, lock a Space or unlock it
Fairness ==
    \A t \in Threads :
        /\ SF_vars(Lock(t) /\ UNCHANGED spaceVars)
        /\ WF_vars(MapEntry(t) /\ UNCHANGED spaceVars)
        /\ WF_vars(OrInsertWith(t) /\ UNCHANGED spaceVars)
        /\ WF_vars(Return(t) /\ UNCHANGED spaceVars)

FairSpec == Init /\ [][FairNext]_vars /\ Fairness

\* one Space shared by the threads, every add_region and delete_region call
\* made with the guard of the Space held
GuardNext ==
    \/ \E t \in GuardThreads, name \in CleanNames, r \in Candidates :
          /\ Request(t, "add_region", name, {r})
          /\ UNCHANGED spaceVars
    \/ \E t \in GuardThreads, name \in CleanNames :
          /\ Request(t, "delete_region", name, {})
          /\ UNCHANGED spaceVars
    \/ \E t \in GuardThreads : Acquire(t) /\ UNCHANGED spaceVars
    \/ \E t \in GuardThreads : CheckStep(t) /\ UNCHANGED spaceVars
    \/ \E t \in GuardThreads :
          InsertStep(t) /\ UNCHANGED <<ptrs, dropped, aborted, last>>
    \/ \E t \in GuardThreads :
          DeleteStep(t) /\ UNCHANGED <<ptrs, dropped, aborted, last>>

GuardSpec == Init /\ [][GuardNext]_vars

\* one Space with two region names and one handle, pending for one of them,
\* its regions read and written through the typed accesses
AccessNext ==
    \/ \E name \in CleanNames, region \in Candidates :
          AddRegion(name, region) /\ UNCHANGED tableVars
    \/ \E name \in CleanNames : DeleteRegion(name) /\ UNCHANGED tableVars
    \/ Clean("a", "p1") /\ UNCHANGED tableVars
    \/ \E op \in AccessOps, addr \in Addr :
          TypedAccess(op, addr) /\ UNCHANGED tableVars

AccessSpec == Init /\ [][AccessNext]_vars

\* one Space, add_region called with every region a caller can build: any
\* base and any size, size 0 and base + size >= 2^64 included (the sums of
\* lines 41-44 and 75 wrap, as in a build without overflow checks); no
\* handles are registered
AnyNext ==
    \/ \E name \in Names, region \in Region :
          AddRegion(name, region) /\ UNCHANGED tableVars
    \/ \E name \in Names : DeleteRegion(name) /\ UNCHANGED tableVars

AnySpec == Init /\ [][AnyNext]_vars

(* ------------------------------ properties ----------------------------- *)

\* the addresses of a region: the half-open range [base, base + size)
Range(r) == {a \in 0 .. (r.base + r.size - 1) : a >= r.base}

\* the registered entries
Registered == {regions[k] : k \in DOMAIN regions}

\* name labels a registered region
Labels(name) == \E e \in Registered : e.name = name

\* the registered entries whose range intersects r's
Intersecting(r) == {e \in Registered : Range(e.region) \cap Range(r) # {}}

\* C1: any two distinct registered regions have disjoint ranges
\* [base, base + size).
C1_NonOverlap ==
    \A k1, k2 \in DOMAIN regions :
        k1 # k2 => Range(regions[k1].region) \cap Range(regions[k2].region) = {}

\* two regions are registered, the second added right behind the first
C1_Witness ==
    /\ last.op = "add_region" /\ last.ret.kind = "Ok"
    /\ \E e \in Registered, r \in last.ret.region :
          e.name # last.name /\ e.region.base + e.region.size = r.base

\* C2: no two registered regions carry the same name.
C2_NameUnique ==
    \A k1, k2 \in DOMAIN regions : k1 # k2 => regions[k1].name # regions[k2].name

\* an add_region with a registered name was refused while two regions are
\* registered
C2_Witness ==
    /\ last.op = "add_region" /\ last.ret.kind = "Renamed"
    /\ Cardinality(DOMAIN regions) >= 2

\* C3: add_region(name, r) succeeds whenever name labels no registered region
\* and r's range intersects no registered region's range, and after the
\* success get_region(name) returns r.
C3_NoFalseRejection ==
    /\ \A name \in Names, r \in Candidates :
          (~Labels(name) /\ Intersecting(r) = {}) =>
              /\ Check(regions, name, r) =
                    [kind |-> "Ok", name |-> name, region |-> {r}]
              /\ GetRegion(AddRegions(regions, name, r), name) = {r}
    /\ (last.op = "add_region" /\ last.ret.kind = "Ok") =>
          GetRegion(regions, last.name) = last.ret.region

\* a region was added that exactly abuts registered regions on both sides
C3_Witness ==
    /\ last.op = "add_region" /\ last.ret.kind = "Ok"
    /\ \E e1, e2 \in Registered, r \in last.ret.region :
          /\ e1.region.base + e1.region.size = r.base
          /\ r.base + r.size = e2.region.base
          /\ GetRegion(regions, last.name) = {r}

\* what add_region(name, r) answers when name is new and r intersects a
\* registered region: Overlap naming a registered region that intersects r,
\* and the regions stay as they are
C4_Answer ==
    \A name \in Names, r \in Candidates :
        (~Labels(name) /\ Intersecting(r) # {}) =>
            /\ Check(regions, name, r).kind = "Overlap"
            /\ \E e \in Intersecting(r) : e.name = Check(regions, name, r).name
            /\ AddRegions(regions, name, r) = regions

\* a call of add_region that returns Overlap changes neither the regions nor
\* the pending handles
C4_Frame ==
    (last'.op = "add_region" /\ last'.ret.kind = "Overlap") =>
        (regions' = regions /\ ptrs' = ptrs)

C5_Answer ==
    \A name \in Names, r \in Candidates :
        Labels(name) =>
            /\ Check(regions, name, r) =
                  [kind |-> "Renamed", name |-> name, region |-> {}]
            /\ AddRegions(regions, name, r) = regions

\* a call of add_region that returns Renamed changes no region
C5_Frame ==
    (last'.op = "add_region" /\ last'.ret.kind = "Renamed") =>
        (regions' = regions /\ last'.ret.name = last'.name)

\* C5: add_region with a name that already labels a registered region returns
\* Error::Renamed carrying that name, whether the candidate range overlaps
\* nothing or overlaps a registered region, and the registered regions are
\* unchanged.
C5_RenamedRejected == [](C5_Answer) /\ [][C5_Frame]_vars

\* add_region returned Renamed in a Space where some candidate with the
\* name intersects another region and some candidate intersects none
C5_Witness ==
    /\ last.op = "add_region" /\ last.ret.kind = "Renamed"
    /\ Labels(last.name)
    /\ \E r \in Candidates : \E e \in Intersecting(r) : e.name # last.name
    /\ \E r \in Candidates : Intersecting(r) = {}

C7_Step ==
    LET name == last'.name
    IN  (last'.op = "delete_region" /\ Labels(name)) =>
            \A r \in GetRegion(regions, name) :
                /\ GetRegion(regions', name) = {}
                /\ \A addr \in Range(r) :
                      GetRegionByAddr(regions', addr) = [ok |-> {}, err |-> {addr}]
                /\ \A e \in Registered :
                      e.name # name => GetRegion(regions', e.name) = {e.region}
                /\ \A addr \in Addr \ Range(r) :
                      GetRegionByAddr(regions', addr) = GetRegionByAddr(regions, addr)

C8_Step ==
    (last'.op = "delete_region" /\ ~Labels(last'.name)) =>
        /\ regions' = regions
        /\ \A addr \in Addr :
              GetRegionByAddr(regions', addr) = GetRegionByAddr(regions, addr)

\* C8: delete_region(name) on a name that labels no registered region leaves
\* the set of registered regions unchanged, and every address resolves the
\* same before and after.
C8_DeleteAbsentNoop == [][C8_Step]_vars

\* delete_region was called with a name that labels no region, in a Space
\* with a region at base 0 and after a handle was disposed
C8_Witness ==
    /\ last.op = "delete_region" /\ ~last.found
    /\ 0 \in DOMAIN regions
    /\ Len(dropped) > 0
    /\ ~aborted

\* how many times x occurs in the sequence q
Count(x, q) == Cardinality({i \in 1 .. Len(q) : q[i] = x})

\* C9: every foreign handle registered with clean(name, h) is disposed
\* exactly once over any sequence of operations, also when the same handle
\* value is registered more than once: no handle is disposed a second time.
C9_DisposedOnce == \A h \in Handles : Count(h, dropped) <= 1

\* C10: at most one Space is ever created per name; every get_space(name)
\* returns a handle to the Space the table holds for name; distinct names get
\* distinct Spaces.
C10_Inv ==
    /\ \A n \in SpaceNames : Count(n, made) <= 1
    /\ \A t \in Threads : \A h \in ret[t] :
          h.name \in DOMAIN spaces /\ h.space = spaces[h.name]
    /\ \A n1, n2 \in DOMAIN spaces : n1 # n2 => spaces[n1] # spaces[n2]

\* an entry of the table is never removed or replaced
C10_Stable ==
    \A n \in DOMAIN spaces : n \in DOMAIN spaces' /\ spaces'[n] = spaces[n]

\* C10: under any interleaving of get_space calls, C10_Inv holds in every
\* state and no entry of the table is ever removed or replaced.
C10_OneSpacePerName == [](C10_Inv) /\ [][C10_Stable]_vars

\* all the calls are made: two threads have returned from get_space with the
\* same name and hold the same Space, and the other name has a Space of its
\* own
C10_Witness ==
    \E t1, t2 \in Threads :
        /\ t1 # t2
        /\ pc[t1] = "idle" /\ pc[t2] = "idle"
        /\ ret[t1] # {} /\ ret[t1] = ret[t2]
        /\ Len(made) = 2
        /\ calls = MaxCalls

\* C11: add_region called with a region of size 0 is rejected: it returns an
\* error and registers nothing, for every base and every state of the Space.
C11_ZeroSizeRejected ==
    /\ (last.op = "add_region" /\ last.ret.kind = "Ok") =>
          \A r \in last.ret.region : r.size # 0
    /\ \A e \in Registered : e.region.size # 0

\* what a successful add_region does to the registered regions: one more
\* entry, and every region registered before is registered under its name
C17_Step ==
    (last'.op = "add_region" /\ last'.ret.kind = "Ok") =>
        /\ Cardinality(DOMAIN regions') = Cardinality(DOMAIN regions) + 1
        /\ \A e \in Registered : GetRegion(regions', e.name) = {e.region}

\* C17: a successful add_region(name, r), for every candidate the code
\* accepts, increases the number of registered regions by exactly one and
\* leaves every previously registered region registered under its name.
C17_InsertKeepsEntries == [][C17_Step]_vars

\* the regions whose last byte is the maximum address
TopRegions == {r \in Region : r.size > 0 /\ r.base + r.size = Modulus}

\* C18: a region whose last byte is the maximum address is added to a Space
\* with no intersecting region, afterwards get_region_by_addr(addr) returns
\* it for every addr in [base, 2^64 - 1], and a later add_region of a range
\* that intersects it fails with Overlap.
C18_TopRegion ==
    /\ \A name \in Names, r \in TopRegions :
          (~Labels(name) /\ Intersecting(r) = {}) =>
              Check(regions, name, r).kind = "Ok"
    /\ \A e \in Registered :
          e.region \in TopRegions =>
              /\ \A addr \in e.region.base .. MaxAddr :
                    GetRegionByAddr(regions, addr) = [ok |-> {e.region}, err |-> {}]
              /\ \A name \in Names, r \in Region :
                    (~Labels(name) /\ Range(r) \cap Range(e.region) # {}) =>
                        Check(regions, name, r).kind = "Overlap"

\* the registered (name, base, size) of a map of regions
Entries(rs) == {rs[k] : k \in DOMAIN rs}

\* C19: a successful add_region(name, r) immediately followed by
\* delete_region(name) restores the set of registered regions, so every
\* address resolves as it did before.
C19_RoundTrip ==
    \A name \in Names, r \in Region :
        Check(regions, name, r).kind = "Ok" =>
            LET back == DeleteRegions(AddRegions(regions, name, r), name)
            IN  /\ Entries(back) = Entries(regions)
                /\ \A addr \in Addr :
                      GetRegionByAddr(back, addr) = GetRegionByAddr(regions, addr)

\* the pending handles of name: the list stored under name, empty when absent
Pending(ps, name) == IF name \in DOMAIN ps THEN ps[name] ELSE <<>>

\* what clean(name, h) stores, for every name and handle
C16_Appends ==
    \A name \in Names, h \in Handles :
        LET after == Push(ptrs, name, h)
        IN  /\ Pending(after, name) = Append(Pending(ptrs, name), h)
            /\ \A n \in Names \ {name} : Pending(after, n) = Pending(ptrs, n)
            /\ DOMAIN after = DOMAIN ptrs \cup {name}

\* what a clean step changes
C16_Frame ==
    last'.op = "clean" =>
        /\ \E h \in Handles : ptrs' = Push(ptrs, last'.name, h)
        /\ regions' = regions
        /\ dropped' = dropped
        /\ \A addr \in Addr :
              GetRegionByAddr(regions', addr) = GetRegionByAddr(regions, addr)

\* C16: clean(name, h) appends h to the end of the pending list of name,
\* whether or not name labels a region and whether or not h is already
\* pending, and changes neither the registered regions, nor address
\* resolution, nor the pending lists of the other names.
C16_CleanAppends == [](C16_Appends) /\ [][C16_Frame]_vars

\* a handle was pushed a second time for a name that labels no region
C16_Witness ==
    /\ last.op = "clean"
    /\ ~Labels(last.name)
    /\ Registered # {}
    /\ \E h \in Handles : Pending(ptrs, last.name) = <<h, h>>

\* the notification count agrees with the table and with the finished calls
C14_Inv ==
    /\ printed <= 1
    /\ printed = 1 <=> "space_query" \in DOMAIN spaces
    /\ printed = Count("space_query", made)
    /\ \A t \in Threads : \A h \in ret[t] : h.name = "space_query" => printed = 1

\* the notification is emitted only by the step that creates "space_query"
C14_Step ==
    printed' # printed =>
        /\ printed' = printed + 1
        /\ "space_query" \notin DOMAIN spaces
        /\ "space_query" \in DOMAIN spaces'
        /\ \E t \in Threads :
              /\ arg[t] = "space_query"
              /\ pc[t] = "or_insert" /\ pc'[t] = "return"

\* C14: under any interleaving of get_space calls "create space_query" is
\* printed at most once, exactly by the call that creates the Space named
\* "space_query"; once a get_space("space_query") call has passed its
\* lookup-or-insert it has been printed once, and calls on other names never
\* print it.
C14_OneShotNotification == [](C14_Inv) /\ [][C14_Step]_vars

\* two threads returned from get_space("space_query"), a third created
\* another Space, and the notification was printed once
C14_Witness ==
    /\ printed = 1
    /\ "main" \in DOMAIN spaces
    /\ \E t1, t2 \in Threads :
          /\ t1 # t2
          /\ pc[t1] = "idle" /\ pc[t2] = "idle"
          /\ arg[t1] = "space_query" /\ arg[t2] = "space_query"
          /\ ret[t1] # {} /\ ret[t2] # {}

\* the outcome of the last typed access, against the regions it ran on
C12_Outcome ==
    last.op \in AccessOps =>
        LET res == GetRegionByAddr(regions, last.addr)
            covering == {e \in Registered : last.addr \in Range(e.region)}
        IN  /\ last.ret.kind = "Err" <=> res.ok = {}
            /\ last.ret.kind = "Err" =>
                  /\ last.ret.err = {last.addr}
                  /\ covering = {}
            /\ last.ret.kind = "Ok" =>
                  /\ last.ret.region = res.ok
                  /\ last.ret.region = {e.region : e \in covering}
                  /\ Cardinality(covering) = 1

\* a typed access changes nothing of the Space
C12_Frame ==
    last'.op \in AccessOps =>
        /\ regions' = regions
        /\ ptrs' = ptrs
        /\ dropped' = dropped

\* C12: every typed access at addr returns Err(addr) exactly when
\* get_region_by_addr(addr) fails (no registered region covers addr), and
\* otherwise is made on exactly the region get_region_by_addr(addr) returns
\* (the one covering addr); the registered regions and the pending handle
\* lists are unchanged in both cases.
C12_TypedAccess == [](C12_Outcome) /\ [][C12_Frame]_vars

\* an access inside the second of two regions was delegated to it, with a
\* handle pending
C12_Witness ==
    /\ last.op = "read_u32"
    /\ last.ret.kind = "Ok"
    /\ Cardinality(DOMAIN regions) = 2
    /\ \A r \in last.ret.region : r.base > Min(DOMAIN regions) /\ last.addr > r.base
    /\ ptrs # EmptyMap

\* the table lock is held only inside get_space
C15_Inv ==
    /\ Cardinality(owner) <= 1
    /\ \A t \in owner : pc[t] \in {"entry", "or_insert", "return"}
    /\ \A t \in Threads : pc[t] \in {"idle", "lock"} => t \notin owner

\* a step of get_space takes and releases no guard of a Space, and a step
\* that takes or releases one is no step of get_space
C15_Step ==
    /\ pc' # pc => guards' = guards
    /\ owner' # owner => guards' = guards

\* every get_space call returns
C15_Returns == \A t \in Threads : (pc[t] # "idle") ~> (pc[t] = "idle")

\* C15: get_space takes only the table lock, never the guard of a Space, and
\* has released the table lock when it returns; so under fair scheduling
\* every get_space call returns, also while other threads hold guards of
\* Spaces for ever or call get_space while holding one.
C15_GetSpaceReturns == [](C15_Inv) /\ [][C15_Step]_vars /\ C15_Returns

\* a thread holding the guard of a Space is about to return from get_space,
\* another thread holds the guard of the other Space, and a third has
\* returned from get_space meanwhile
C15_Witness ==
    \E t1, t2, t3 \in Threads :
        /\ t1 # t2 /\ t1 # t3 /\ t2 # t3
        /\ pc[t1] = "return" /\ Holders(1) = {t1}
        /\ pc[t2] = "idle" /\ Holders(2) = {t2}
        /\ pc[t3] = "idle" /\ ret[t3] # {}
        /\ calls = MaxCalls

\* two add_region calls conflict: equal names or intersecting ranges
Conflict(j, k) ==
    \/ j.name = k.name
    \/ \E r1 \in j.region, r2 \in k.region : Range(r1) \cap Range(r2) # {}

\* the finished add_region calls of two threads that were in progress or
\* waiting at the same time, and conflict
ConcurrentAdds ==
    {p \in GuardThreads \X GuardThreads :
        /\ p[1] # p[2]
        /\ \E j \in job[p[1]], k \in job[p[2]] :
              /\ j.op = "add_region" /\ k.op = "add_region"
              /\ j.at = "returned" /\ k.at = "returned"
              /\ p[2] \in j.with \/ p[1] \in k.with
              /\ Conflict(j, k)}

\* the registered regions are disjoint and their names differ, and a call
\* runs only with the guard held, one at a time
C13_Inv ==
    /\ \A e1, e2 \in Registered :
          e1 # e2 =>
              /\ Range(e1.region) \cap Range(e2.region) = {}
              /\ e1.name # e2.name
    /\ Cardinality(DOMAIN regions) = Cardinality(Registered)
    /\ Cardinality(Holders(TheSpace)) <= 1
    /\ \A t \in GuardThreads : \A j \in job[t] :
          j.at \in {"check", "insert"} <=> t \in Holders(TheSpace)

\* of two concurrent conflicting add_region calls exactly one succeeds
C13_ExactlyOne ==
    \A p \in ConcurrentAdds :
        \A j \in job[p[1]], k \in job[p[2]] : (j.res = "Ok") # (k.res = "Ok")

\* C13 as stated: with every add_region and delete_region call made under the
\* guard of the Space, the non-overlap and name-uniqueness invariants hold in
\* every state under any interleaving, and of two concurrent add_region calls
\* whose ranges intersect or whose names are equal exactly one succeeds.
C13_Original == C13_Inv /\ C13_ExactlyOne

\* the check of an add_region call answers for the Space as it is when the
\* call holds the guard, and the insert finds the Space as the check left it
C13_Step ==
    \A t \in GuardThreads : \A j \in job[t], j2 \in job'[t] :
        /\ (j.at = "check" /\ j.op = "add_region" /\ j2.at # "check") =>
              \A r \in j.region :
                  /\ j2.res = "Ok" <=>
                        \A e \in Registered :
                            /\ e.name # j.name
                            /\ Range(e.region) \cap Range(r) = {}
                  /\ \A u \in GuardThreads \ {t} : \A k \in job[u] :
                        (/\ k.op = "add_region" /\ k.res = "Ok"
                         /\ Conflict(j, k)
                         /\ \E rk \in k.region : Entry(k.name, rk) \in Registered)
                            => j2.res # "Ok"
        /\ (j.at = "insert" /\ j2.at # "insert") =>
              \A r \in j.region :
                  /\ Check(regions, j.name, r).kind = "Ok"
                  /\ regions' = AddRegions(regions, j.name, r)

\* C13 amended: with every call made under the guard, the non-overlap and
\* name-uniqueness invariants hold in every state under any interleaving,
\* and an add_region call succeeds exactly when no region registered at the
\* time it holds the guard has its name or intersects its range. So of two
\* conflicting add_region calls the later one fails while the region of a
\* successful earlier one is registered, and both fail when a registered
\* region conflicts with each of them.
C13_Serialized == [](C13_Inv) /\ [][C13_Step]_vars

\* two concurrent add_region calls with different names and intersecting
\* ranges returned, one with Ok and one with Overlap
C13_Witness ==
    \E p \in ConcurrentAdds :
        \E j \in job[p[1]], k \in job[p[2]] :
            /\ j.name # k.name
            /\ j.res = "Ok" /\ k.res = "Overlap"
            /\ \E r \in j.region : regions = Insert(EmptyMap, r.base, Entry(j.name, r))

====
